---- MODULE Spec2Model ----
(***************************************************************************)
(* Model of the RFNoC DDC block controller                                 *)
(* (host/lib/rfnoc/ddc_block_control.cpp).                                 *)
(*                                                                         *)
(* C++ `double` values are modelled as IEEE-754 binary64 numbers with      *)
(* round-to-nearest-even: a finite non-negative double is m * 2^e with m   *)
(* either zero or a 53-bit significand.  Significands do not fit a TLC     *)
(* integer, so they are kept as little-endian sequences of 20-bit limbs.   *)
(* Only non-negative values and +infinity occur (rates, scalings and       *)
(* decimations are non-negative in every modelled input).                  *)
(***************************************************************************)
EXTENDS Integers, Sequences, FiniteSets, TLC

(***************************************************************************)
(* Natural numbers of arbitrary size: little-endian limbs, no leading      *)
(* zero limb, zero is the empty sequence.                                  *)
(***************************************************************************)
LIMB == 1048576

LIMB_BITS == 20

RECURSIVE Pow2(_)
Pow2(n) == IF n = 0 THEN 1 ELSE 2 * Pow2(n - 1)

RECURSIVE BTrim(_)
BTrim(s) ==
    IF s = <<>> THEN s
    ELSE IF s[Len(s)] = 0 THEN BTrim(SubSeq(s, 1, Len(s) - 1))
    ELSE s

BFromInt(n) ==
    IF n = 0 THEN <<>>
    ELSE IF n < LIMB THEN <<n>>
    ELSE <<n % LIMB, n \div LIMB>>

BToInt(s) ==
    IF s = <<>> THEN 0
    ELSE IF Len(s) = 1 THEN s[1]
    ELSE s[1] + LIMB * s[2]

BLimb(s, i) == IF i <= Len(s) THEN s[i] ELSE 0

RECURSIVE BCmpFrom(_, _, _)
BCmpFrom(a, b, i) ==
    IF i = 0 THEN 0
    ELSE IF a[i] > b[i] THEN 1
    ELSE IF a[i] < b[i] THEN -1
    ELSE BCmpFrom(a, b, i - 1)

BCmp(a, b) ==
    IF Len(a) > Len(b) THEN 1
    ELSE IF Len(a) < Len(b) THEN -1
    ELSE BCmpFrom(a, b, Len(a))

BGe(a, b) == BCmp(a, b) >= 0

RECURSIVE BAddFrom(_, _, _, _)
BAddFrom(a, b, i, carry) ==
    IF i > Len(a) /\ i > Len(b)
    THEN IF carry = 0 THEN <<>> ELSE <<carry>>
    ELSE LET t == BLimb(a, i) + BLimb(b, i) + carry
         IN  <<t % LIMB>> \o BAddFrom(a, b, i + 1, t \div LIMB)

BAdd(a, b) == BAddFrom(a, b, 1, 0)

RECURSIVE BSubFrom(_, _, _, _)
BSubFrom(a, b, i, borrow) ==
    IF i > Len(a) THEN <<>>
    ELSE LET t == a[i] - BLimb(b, i) - borrow
         IN  IF t < 0
             THEN <<t + LIMB>> \o BSubFrom(a, b, i + 1, 1)
             ELSE <<t>> \o BSubFrom(a, b, i + 1, 0)

\* a - b for a >= b
BSub(a, b) == BTrim(BSubFrom(a, b, 1, 0))

RECURSIVE BMulSmallFrom(_, _, _, _)
BMulSmallFrom(a, k, i, carry) ==
    IF i > Len(a)
    THEN IF carry = 0 THEN <<>> ELSE <<carry>>
    ELSE LET t == a[i] * k + carry
         IN  <<t % LIMB>> \o BMulSmallFrom(a, k, i + 1, t \div LIMB)

\* a * k for 0 <= k <= 2047
BMulSmall(a, k) == BTrim(BMulSmallFrom(a, k, 1, 0))

RECURSIVE BShl(_, _)
BShl(a, n) ==
    IF a = <<>> \/ n = 0 THEN a
    ELSE IF n >= LIMB_BITS THEN <<0>> \o BShl(a, n - LIMB_BITS)
    ELSE IF n > 10 THEN BShl(BMulSmall(a, 1024), n - 10)
    ELSE BMulSmall(a, Pow2(n))

RECURSIVE BDivSmallFrom(_, _, _, _)
BDivSmallFrom(a, k, i, rem) ==
    IF i = 0 THEN <<>>
    ELSE LET t == rem * LIMB + a[i]
         IN  BDivSmallFrom(a, k, i - 1, t % k) \o <<t \div k>>

\* floor(a / k) for 1 <= k <= 2047
BDivSmall(a, k) == BTrim(BDivSmallFrom(a, k, Len(a), 0))

RECURSIVE BShr(_, _)
BShr(a, n) ==
    IF a = <<>> \/ n = 0 THEN a
    ELSE IF n >= LIMB_BITS THEN BShr(SubSeq(a, 2, Len(a)), n - LIMB_BITS)
    ELSE IF n > 10 THEN BShr(BDivSmall(a, 1024), n - 10)
    ELSE BDivSmall(a, Pow2(n))

RECURSIVE IntBitLen(_)
IntBitLen(n) == IF n = 0 THEN 0 ELSE 1 + IntBitLen(n \div 2)

BBitLen(a) ==
    IF a = <<>> THEN 0
    ELSE (Len(a) - 1) * LIMB_BITS + IntBitLen(a[Len(a)])

\* bit i (0 = least significant) of a
BBit(a, i) ==
    LET l == (i \div LIMB_BITS) + 1
    IN  (BLimb(a, l) \div Pow2(i % LIMB_BITS)) % 2

\* TRUE iff a mod 2^n = 0
BLowZero(a, n) == BShl(BShr(a, n), n) = a

RECURSIVE BMulFrom(_, _, _)
BMulFrom(a, b, i) ==
    IF i > Len(b) THEN <<>>
    ELSE LET lo == b[i] % 1024
             hi == b[i] \div 1024
             p  == BAdd(BMulSmall(a, lo), BShl(BMulSmall(a, hi), 10))
         IN  BAdd(p, BShl(BMulFrom(a, b, i + 1), LIMB_BITS))

BMul(a, b) == BTrim(BMulFrom(a, b, 1))

(***************************************************************************)
(* IEEE-754 binary64, non-negative values and +infinity.                   *)
(***************************************************************************)
DBL_MANT_DIG == 53

DZero == [k |-> "fin", m |-> <<>>, e |-> 0]

DInf == [k |-> "inf", m |-> <<>>, e |-> 0]

\* The double nearest to (M + t) * 2^e, where 0 <= t < 1 and sticky says
\* whether t > 0; ties go to the even significand.
DRound(M, e, sticky) ==
    LET L == BBitLen(M)
    IN  IF M = <<>> THEN DZero
        ELSE IF L <= DBL_MANT_DIG
        THEN [k |-> "fin", m |-> BShl(M, DBL_MANT_DIG - L),
              e |-> e - (DBL_MANT_DIG - L)]
        ELSE LET s     == L - DBL_MANT_DIG
                 m0    == BShr(M, s)
                 guard == BBit(M, s - 1) = 1
                 rest  == sticky \/ ~BLowZero(M, s - 1)
                 up    == guard /\ (rest \/ BBit(m0, 0) = 1)
                 m1    == IF up THEN BAdd(m0, <<1>>) ELSE m0
             IN  IF BBitLen(m1) > DBL_MANT_DIG
                 THEN [k |-> "fin", m |-> BShr(m1, 1), e |-> e + s + 1]
                 ELSE [k |-> "fin", m |-> m1, e |-> e + s]

\* int -> double (exact for the 32-bit ints of the program)
DFromInt(n) == DRound(BFromInt(n), 0, FALSE)

DIsZero(a) == a.k = "fin" /\ a.m = <<>>

\* a < b
DLt(a, b) ==
    IF a.k = "inf" THEN FALSE
    ELSE IF b.k = "inf" THEN TRUE
    ELSE IF DIsZero(b) THEN FALSE
    ELSE IF DIsZero(a) THEN TRUE
    ELSE IF a.e # b.e THEN a.e < b.e
    ELSE BCmp(a.m, b.m) < 0

DLe(a, b) == a = b \/ DLt(a, b)

RECURSIVE DivBits(_, _, _, _)
DivBits(R, D, k, Q) ==
    LET bit == BGe(R, D)
        R1  == IF bit THEN BSub(R, D) ELSE R
        Q1  == BAdd(BAdd(Q, Q), IF bit THEN <<1>> ELSE <<>>)
    IN  IF Len(Q1) >= 0 /\ k > 1
        THEN DivBits(BAdd(R1, R1), D, k - 1, Q1)
        ELSE <<Q1, R1>>

\* a / b, correctly rounded; x / 0 = +inf for x > 0 and x / inf = 0 as
\* IEEE-754 arithmetic gives them (0/0 and inf/inf do not occur)
DDiv(a, b) ==
    IF a.k = "inf" THEN DInf
    ELSE IF b.k = "inf" THEN DZero
    ELSE IF DIsZero(b) THEN DInf
    ELSE IF DIsZero(a) THEN DZero
    ELSE LET qr == DivBits(a.m, b.m, DBL_MANT_DIG + 2, <<>>)
         IN  DRound(qr[1], a.e - b.e - (DBL_MANT_DIG + 1), qr[2] # <<>>)

\* a * b, correctly rounded (inf * 0 does not occur)
DMul(a, b) ==
    IF a.k = "inf" \/ b.k = "inf" THEN DInf
    ELSE IF DIsZero(a) \/ DIsZero(b) THEN DZero
    ELSE DRound(BMul(a.m, b.m), a.e + b.e, FALSE)

\* a - b for a >= b, correctly rounded
DSub(a, b) ==
    IF a.k = "inf" THEN DInf
    ELSE IF DIsZero(b) THEN a
    ELSE IF a.e - b.e > DBL_MANT_DIG + 2 THEN a
    ELSE DRound(BSub(BShl(a.m, a.e - b.e), b.m), b.e, FALSE)

\* std::abs(a - b)
DAbsDiff(a, b) == IF DLt(a, b) THEN DSub(b, a) ELSE DSub(a, b)

\* static_cast<int>(a) / int(a): truncation toward zero of a finite double
\* that fits an int
DToInt(a) ==
    IF DIsZero(a) THEN 0
    ELSE IF a.e >= 0 THEN BToInt(BShl(a.m, a.e))
    ELSE IF -a.e >= DBL_MANT_DIG THEN 0
    ELSE BToInt(BShr(a.m, -a.e))

\* TRUE iff the finite double a has an integral value
DIsInt(a) ==
    DIsZero(a) \/ a.e >= 0 \/ (-a.e < DBL_MANT_DIG /\ BLowZero(a.m, -a.e))

\* boost::math::iround: nearest int, halves away from zero
DIRound(a) ==
    IF DIsZero(a) THEN 0
    ELSE IF a.e >= 0 THEN BToInt(BShl(a.m, a.e))
    ELSE IF -a.e > DBL_MANT_DIG THEN 0
    ELSE DToInt(a) + BBit(a.m, -a.e - 1)

\* a * 2^n (exact)
DScale(a, n) ==
    IF a.k = "inf" \/ DIsZero(a) THEN a ELSE [a EXCEPT !.e = a.e + n]

(***************************************************************************)
(* Bounds of the model.                                                    *)
(***************************************************************************)
\* largest number of halfband stages a device reports (RB_NUM_HB)
MaxHalfbands == 2

\* largest maximum CIC ratio a device reports (RB_CIC_MAX_DECIM)
MaxCic == 6

\* requested decimations probed are k / 4 for k in 0 .. MaxRequest
MaxRequest == 48

(***************************************************************************)
(* State.                                                                  *)
(***************************************************************************)
VARIABLES
    num_halfbands,     \* _num_halfbands
    cic_max_decim,     \* _cic_max_decim
    valid_decims,      \* _valid_decims: the start() of each range, in order
    coerce_call,       \* the last direct call of coerce_decim: request, result
    decim_call,        \* the last direct call of set_decim: arguments, outcome
    samp_rate_in,      \* _samp_rate_in[chan].get()
    samp_rate_out,     \* _samp_rate_out[chan].get()
    scaling_in,        \* _scaling_in[chan].get()
    scaling_out,       \* _scaling_out[chan].get()
    decim,             \* _decim[chan].get()
    freq,              \* _freq[chan].get()
    type_in,           \* _type_in[chan].get()
    type_out,          \* _type_out[chan].get()
    dirty,             \* the <<property, chan>> pairs whose dirty flag is set
    residual_scaling,  \* _residual_scaling[chan]
    regs,              \* address -> last value poked (NoPoke before any poke)
    freq_poke_time,    \* chan -> command time of the last tuning-word poke
    cmd_time,          \* chan -> get_command_time(chan)
    status,            \* "idle", "resolving", "error" (a set threw), "crashed"
    call,              \* the external set in progress or just finished
    ncalls,            \* number of external sets made so far
    action_rx,         \* the action handed to the stream-command handler last
    posted,            \* the actions it posted (post_action), in order
    api                \* the call of set_freq or set_output_rate made last

cfgvars == <<num_halfbands, cic_max_decim, valid_decims>>

propvars == <<samp_rate_in, samp_rate_out, scaling_in, scaling_out, decim,
              freq, type_in, type_out, dirty>>

hwvars == <<residual_scaling, regs, freq_poke_time>>

vars == <<cfgvars, coerce_call, decim_call, propvars, hwvars, cmd_time,
          status, call, ncalls, action_rx, posted, api>>

(***************************************************************************)
(* Constructor: the list of valid decimation values.                       *)
(***************************************************************************)
SetMin(S) == CHOOSE x \in S : \A y \in S : x <= y

\* iteration order of a std::set<size_t>
RECURSIVE SetToSeq(_)
SetToSeq(S) ==
    IF S = {} THEN <<>>
    ELSE <<SetMin(S)>> \o SetToSeq(S \ {SetMin(S)})

\* std::set<size_t> decims{1}; decims.insert((1 << hb) * cic_decim) for
\* hb in [0, _num_halfbands), cic_decim in [0, _cic_max_decim)
ConstructDecims(nhb, cicmax) ==
    {1} \cup { Pow2(hb) * cic_decim :
                 hb \in 0 .. (nhb - 1), cic_decim \in 0 .. (cicmax - 1) }

\* _valid_decims.push_back(uhd::range_t(double(decim))) for each decim
ConstructValidDecims(nhb, cicmax) == SetToSeq(ConstructDecims(nhb, cicmax))

SeqRange(s) == { s[i] : i \in 1 .. Len(s) }

(***************************************************************************)
(* uhd::meta_range_t::clip(value, true) over ranges with start == stop     *)
(* and step == 0: the nearest range bound; a value below the first range   *)
(* or above the last is clipped to that range, and of two bounds equally   *)
(* near the lower one is taken.                                            *)
(***************************************************************************)
RECURSIVE ClipFrom(_, _, _, _)
ClipFrom(ranges, value, i, last_stop) ==
    IF i > Len(ranges) THEN last_stop
    ELSE LET start == DFromInt(ranges[i])
         IN  IF DLt(value, start)
             THEN IF DLt(DAbsDiff(value, start),
                         DAbsDiff(value, DFromInt(last_stop)))
                  THEN ranges[i]
                  ELSE last_stop
             ELSE IF DLe(value, start) THEN ranges[i]
             ELSE ClipFrom(ranges, value, i + 1, ranges[i])

clip(ranges, value) == ClipFrom(ranges, value, 1, ranges[1])

\* the value standing for "coerce_decim threw uhd::assertion_error"
Throw == -1

\* a plausible slip: the request is truncated to int before it is clipped,
\* as the samp_rate_out resolver does with its ratio
coerce_decim_trunc(ranges, requested_decim) ==
    IF ~DLt(DZero, requested_decim) THEN Throw
    ELSE clip(ranges, DFromInt(DToInt(requested_decim)))

(***************************************************************************)
(* coerce_decim: Throw stands for the uhd::assertion_error of              *)
(* UHD_ASSERT_THROW(requested_decim > 0).                                  *)
(***************************************************************************)
coerce_decim(ranges, requested_decim) ==
    IF ~DLt(DZero, requested_decim) THEN Throw
    ELSE clip(ranges, requested_decim)

(***************************************************************************)
(* Constants of the block.                                                 *)
(***************************************************************************)
DEFAULT_RATE == DFromInt(1000000000)

DEFAULT_SCALING == DFromInt(1)

DEFAULT_DECIM == 1

DEFAULT_FREQ == DZero

IO_TYPE_SC16 == "sc16"

REG_CHAN_OFFSET == 2048

SR_N_ADDR == 128 * 8

SR_M_ADDR == 129 * 8

SR_FREQ_ADDR == 132 * 8

SR_SCALE_IQ_ADDR == 133 * 8

SR_DECIM_ADDR == 134 * 8

\* the channels (ports) of the modelled block
Chans == {0, 1}

get_addr(base_addr, chan) == base_addr + REG_CHAN_OFFSET * chan

RegBases == {SR_N_ADDR, SR_M_ADDR, SR_FREQ_ADDR, SR_SCALE_IQ_ADDR,
             SR_DECIM_ADDR}

RegAddrs == { get_addr(base, chan) : base \in RegBases, chan \in Chans }

\* the content of a register that was never poked
NoPoke == -1

\* the command time of a block on which set_command_time was never called
NoTime == 0

\* the API call made last, when the call in progress is not one
NoApi ==
    [op |-> "none", chan |-> 0, time |-> <<>>, prev_cmd_time |-> NoTime,
     coerced_decim |-> 0, done |-> FALSE, ret |-> DZero]

(***************************************************************************)
(* The block's properties, flags and hardware state as one value, so that  *)
(* a resolver is a function from block state to block state.  err is set   *)
(* when the resolver threw.                                                *)
(***************************************************************************)
Blk ==
    [samp_rate_in |-> samp_rate_in, samp_rate_out |-> samp_rate_out,
     scaling_in |-> scaling_in, scaling_out |-> scaling_out,
     decim |-> decim, freq |-> freq,
     type_in |-> type_in, type_out |-> type_out, dirty |-> dirty,
     residual_scaling |-> residual_scaling, regs |-> regs,
     freq_poke_time |-> freq_poke_time, err |-> FALSE]

Install(B) ==
    /\ samp_rate_in' = B.samp_rate_in
    /\ samp_rate_out' = B.samp_rate_out
    /\ scaling_in' = B.scaling_in
    /\ scaling_out' = B.scaling_out
    /\ decim' = B.decim
    /\ freq' = B.freq
    /\ type_in' = B.type_in
    /\ type_out' = B.type_out
    /\ dirty' = B.dirty
    /\ residual_scaling' = B.residual_scaling
    /\ regs' = B.regs
    /\ freq_poke_time' = B.freq_poke_time

\* property_t::operator= / set(): the property becomes dirty when its value
\* changes
Assign(B, prop, chan, value) ==
    IF B[prop][chan] = value THEN B
    ELSE [B EXCEPT ![prop][chan] = value,
                   !.dirty = @ \cup {<<prop, chan>>}]

\* property_t::force_dirty()
ForceDirty(B, prop, chan) == [B EXCEPT !.dirty = @ \cup {<<prop, chan>>}]

\* property_t::is_dirty()
IsDirty(B, prop, chan) == <<prop, chan>> \in B.dirty

\* an exception leaves the resolver
Raise(B) == [B EXCEPT !.err = TRUE]

\* regs().poke32(addr, value)
Poke(B, addr, value) == [B EXCEPT !.regs[addr] = value]

(***************************************************************************)
(* FPGA communication: set_decim and update_scaling.                       *)
(***************************************************************************)
\* while ((cic_decim % 2 == 0) and hb_enable < _num_halfbands)
RECURSIVE HalfbandSplit(_, _, _)
HalfbandSplit(hb_enable, cic_decim, nhb) ==
    IF cic_decim % 2 = 0 /\ hb_enable < nhb
    THEN HalfbandSplit(hb_enable + 1, cic_decim \div 2, nhb)
    ELSE [hb_enable |-> hb_enable, cic_decim |-> cic_decim]

\* a plausible slip: the halfband count is shifted by four bits only
DecimWord_shift4(hb_enable, cic_decim) == hb_enable * 16 + cic_decim

\* (hb_enable << 8) | cic_decim, for cic_decim <= 0xFF
DecimWord(hb_enable, cic_decim) == hb_enable * 256 + cic_decim

\* uhd::math::ceil_log2 of a positive double with an integral value
CeilLog2(x) ==
    LET n == BBitLen(x.m) + x.e
    IN  IF x.m = BShl(<<1>>, DBL_MANT_DIG - 1) THEN n - 1 ELSE n

\* DDS_GAIN * cic_gain / std::pow(2, uhd::math::ceil_log2(cic_gain)) with
\* cic_gain = std::pow(double(cic_decim * 1), 4)
TotalGain(cic_decim) ==
    LET c2       == DMul(DFromInt(cic_decim), DFromInt(cic_decim))
        cic_gain == DMul(c2, c2)
    IN  DScale(DMul(DFromInt(2), cic_gain), -CeilLog2(cic_gain))

\* a plausible slip: FIXPOINT_SCALING taken as 1 << 16
ActualFactor_q16(dsp_gain) ==
    DIRound(DScale(DDiv(DFromInt(1), dsp_gain), 16))

\* boost::math::iround(FIXPOINT_SCALING * (1. / dsp_gain))
ActualFactor(dsp_gain) ==
    DIRound(DScale(DDiv(DFromInt(1), dsp_gain), 15))

\* dsp_gain * double(actual_factor) / FIXPOINT_SCALING
Residual(dsp_gain) ==
    DScale(DMul(dsp_gain, DFromInt(ActualFactor(dsp_gain))), -15)

update_scaling(B, dsp_gain, chan) ==
    [Poke(B, get_addr(SR_SCALE_IQ_ADDR, chan), ActualFactor(dsp_gain))
        EXCEPT !.residual_scaling[chan] = Residual(dsp_gain)]

\* a set_decim that writes the decimation word before it checks the CIC
\* ratio
set_decim_late_check(B, d, chan, nhb, cicmax) ==
    LET hc == HalfbandSplit(0, d, nhb)
        B1 == Poke(B, get_addr(SR_DECIM_ADDR, chan),
                   DecimWord(hc.hb_enable, hc.cic_decim))
    IN  IF ~(hc.hb_enable <= nhb) THEN Raise(B1)
        ELSE IF ~(hc.cic_decim > 0 /\ hc.cic_decim <= cicmax) THEN Raise(B1)
        ELSE update_scaling(
                 Poke(Poke(B1, get_addr(SR_N_ADDR, chan), d),
                      get_addr(SR_M_ADDR, chan), 1),
                 TotalGain(hc.cic_decim), chan)

set_decim(B, d, chan, nhb, cicmax) ==
    LET hc == HalfbandSplit(0, d, nhb)
    IN  IF ~(hc.hb_enable <= nhb) THEN Raise(B)
        ELSE IF ~(hc.cic_decim > 0 /\ hc.cic_decim <= cicmax) THEN Raise(B)
        ELSE LET B1 == Poke(B, get_addr(SR_DECIM_ADDR, chan),
                            DecimWord(hc.hb_enable, hc.cic_decim))
                 B2 == Poke(B1, get_addr(SR_N_ADDR, chan), d)
                 B3 == Poke(B2, get_addr(SR_M_ADDR, chan), 1)
             IN  update_scaling(B3, TotalGain(hc.cic_decim), chan)

(***************************************************************************)
(* _set_freq.  get_freq_and_freq_word: the tuning word is the frequency    *)
(* normalised by the input rate as a 32-bit fraction, rounded; the actual  *)
(* frequency is the one that word stands for (0 <= freq < rate / 2).       *)
(***************************************************************************)
FreqWord(requested_freq, input_rate) ==
    DIRound(DScale(DDiv(requested_freq, input_rate), 32))

ActualFreq(requested_freq, input_rate) ==
    DMul(DScale(DFromInt(FreqWord(requested_freq, input_rate)), -32),
         input_rate)

set_freq_word(B, requested_freq, input_rate, chan, time) ==
    [Poke(B, get_addr(SR_FREQ_ADDR, chan),
          FreqWord(requested_freq, input_rate))
        EXCEPT !.freq_poke_time[chan] = time]

(***************************************************************************)
(* The resolvers registered by _register_props, in registration order.     *)
(***************************************************************************)
ResolverOrder ==
    <<"scaling_out_1", "decim", "freq", "samp_rate_in", "samp_rate_out",
      "scaling_in", "scaling_out_2", "type_in", "type_out">>

\* the first argument of add_property_resolver: the properties whose dirty
\* flag triggers the resolver
ResolverInput(r) ==
    CASE r = "scaling_out_1" -> "scaling_out"
      [] r = "decim"         -> "decim"
      [] r = "freq"          -> "freq"
      [] r = "samp_rate_in"  -> "samp_rate_in"
      [] r = "samp_rate_out" -> "samp_rate_out"
      [] r = "scaling_in"    -> "scaling_in"
      [] r = "scaling_out_2" -> "scaling_out"
      [] r = "type_in"       -> "type_in"
      [] r = "type_out"      -> "type_out"

\* a scaling_out resolver that leaves its own input dirty
ResolveScalingOut_redirty(B, chan) ==
    ForceDirty(Assign(B, "scaling_out", chan,
                      DMul(B.scaling_in[chan], B.residual_scaling[chan])),
               "scaling_out", chan)

ResolveScalingOut(B, chan) ==
    Assign(B, "scaling_out", chan,
           DMul(B.scaling_in[chan], B.residual_scaling[chan]))

\* samp_rate_out = samp_rate_in.get() / decim.get()
UpdateRateOut(B, chan) ==
    IF B.err THEN B
    ELSE Assign(B, "samp_rate_out", chan,
                DDiv(B.samp_rate_in[chan], DFromInt(B.decim[chan])))

\* decim = d, where d is what coerce_decim returned (or threw)
AssignDecim(B, chan, d) ==
    IF d = Throw THEN Raise(B) ELSE Assign(B, "decim", chan, d)

\* a decim resolver that does not program the hardware
ApplyDecim_skipped(B, chan, nhb, cicmax) == B

\* set_decim(decim.get(), chan)
ApplyDecim(B, chan, nhb, cicmax) ==
    IF B.err THEN B ELSE set_decim(B, B.decim[chan], chan, nhb, cicmax)

\* a decim resolver that omits scaling_in.force_dirty()
ForceScalingIn_omitted(B, chan) == B

\* scaling_in.force_dirty()
ForceScalingIn(B, chan) ==
    IF B.err THEN B ELSE ForceDirty(B, "scaling_in", chan)

ResolveDecim(B, chan, ranges, nhb, cicmax) ==
    ForceScalingIn(
        UpdateRateOut(
            ApplyDecim(
                AssignDecim(B, chan,
                    coerce_decim(ranges, DFromInt(B.decim[chan]))),
                chan, nhb, cicmax),
            chan),
        chan)

ResolveFreq(B, chan, time) ==
    Assign(set_freq_word(B, B.freq[chan], B.samp_rate_in[chan], chan, time),
           "freq", chan, ActualFreq(B.freq[chan], B.samp_rate_in[chan]))

\* a samp_rate_in resolver that does not force freq dirty
ForceFreq_omitted(B, chan) == B

\* freq.force_dirty()
ForceFreq(B, chan) == IF B.err THEN B ELSE ForceDirty(B, "freq", chan)

ResolveSampRateIn(B, chan, ranges) ==
    ForceFreq(
        UpdateRateOut(
            AssignDecim(B, chan,
                coerce_decim(ranges,
                    DDiv(B.samp_rate_in[chan], B.samp_rate_out[chan]))),
            chan),
        chan)

\* a samp_rate_out resolver that scales the input rate instead of the
\* output rate: samp_rate_in = samp_rate_in.get() * decim.get()
UpdateRateIn_wrong_operand(B, chan) ==
    IF B.err \/ ~IsDirty(B, "decim", chan) THEN B
    ELSE Assign(B, "samp_rate_in", chan,
                DMul(B.samp_rate_in[chan], DFromInt(B.decim[chan])))

\* if (decim.is_dirty()) { samp_rate_in = samp_rate_out.get() * decim.get(); }
UpdateRateIn(B, chan) ==
    IF B.err \/ ~IsDirty(B, "decim", chan) THEN B
    ELSE Assign(B, "samp_rate_in", chan,
                DMul(B.samp_rate_out[chan], DFromInt(B.decim[chan])))

ResolveSampRateOut(B, chan, ranges) ==
    UpdateRateIn(
        AssignDecim(B, chan,
            coerce_decim(ranges,
                DFromInt(DToInt(DDiv(B.samp_rate_in[chan],
                                     B.samp_rate_out[chan]))))),
        chan)

ResolveScalingIn(B, chan) == ForceDirty(B, "scaling_out", chan)

ResolveTypeIn(B, chan) == Assign(B, "type_in", chan, IO_TYPE_SC16)

ResolveTypeOut(B, chan) == Assign(B, "type_out", chan, IO_TYPE_SC16)

\* the body of resolver r of channel chan, on block state B of a block with
\* configuration cfg = <<ranges, nhb, cicmax>> and command times times
ResolverBody(r, B, chan, cfg, times) ==
    CASE r = "scaling_out_1" -> ResolveScalingOut(B, chan)
      [] r = "decim"         -> ResolveDecim(B, chan, cfg[1], cfg[2], cfg[3])
      [] r = "freq"          -> ResolveFreq(B, chan, times[chan])
      [] r = "samp_rate_in"  -> ResolveSampRateIn(B, chan, cfg[1])
      [] r = "samp_rate_out" -> ResolveSampRateOut(B, chan, cfg[1])
      [] r = "scaling_in"    -> ResolveScalingIn(B, chan)
      [] r = "scaling_out_2" -> ResolveScalingOut(B, chan)
      [] r = "type_in"       -> ResolveTypeIn(B, chan)
      [] r = "type_out"      -> ResolveTypeOut(B, chan)

(***************************************************************************)
(* The resolution engine (spec 4.2): while some resolver's input is dirty, *)
(* pick such a resolver, clear the dirty flag of its input and run it;     *)
(* what it assigns a new value to, or forces dirty, is dirty afterwards.   *)
(* More than ExecBound executions for one set are a fatal error.           *)
(***************************************************************************)
\* executions of resolvers allowed for one external set
ExecBound == 20

\* external sets made in one behaviour
MaxCalls == 2

Triggered(B, r, chan) == IsDirty(B, ResolverInput(r), chan)

\* the engine clears the dirty flag of the resolver's input
Cleared(B, r, chan) ==
    [B EXCEPT !.dirty = @ \ {<<ResolverInput(r), chan>>}]

\* a resolver that threw aborts the resolution before the engine gets to
\* clear the dirty flag of its input
Aborted(B2, r, chan) ==
    IF B2.err THEN [B2 EXCEPT !.dirty = @ \cup {<<ResolverInput(r), chan>>}]
    ELSE B2

RunResolver(r, B, chan, cfg, times) ==
    Aborted(ResolverBody(r, Cleared(B, r, chan), chan, cfg, times), r, chan)

Fixpoint(B) ==
    \A chan \in Chans, i \in 1 .. Len(ResolverOrder) :
        ~Triggered(B, ResolverOrder[i], chan)

NoCallRec ==
    [prop |-> "none", chan |-> 0, execs |-> 0, clean |-> TRUE,
     bound_hit |-> FALSE, pre |-> <<>>]

\* the block after one execution: B2 is what the resolver left
Executed(B2) ==
    /\ Install(B2)
    /\ status' = IF B2.err THEN "error" ELSE "resolving"
    /\ call' = [call EXCEPT
                   !.execs = IF call.execs >= ExecBound THEN @ ELSE @ + 1,
                   !.bound_hit = (call.execs >= ExecBound)]
    /\ UNCHANGED <<cfgvars, api, coerce_call, decim_call, cmd_time, ncalls,
                   action_rx, posted>>

\* one execution of resolver r of channel chan during a set; B2 is the
\* block as the resolver's body leaves it
EngineStep(r, chan, B2) ==
    /\ status = "resolving"
    /\ Triggered(Blk, r, chan)
    /\ \E B3 \in {IF call.execs >= ExecBound THEN Raise(Blk)
                   ELSE Aborted(B2, r, chan)} :
           Executed(B3)

RunScalingOut1 ==
    \E chan \in Chans :
        EngineStep("scaling_out_1", chan,
            ResolveScalingOut(Cleared(Blk, "scaling_out_1", chan), chan))

RunDecim ==
    \E chan \in Chans :
        EngineStep("decim", chan,
            ResolveDecim(Cleared(Blk, "decim", chan), chan, valid_decims,
                         num_halfbands, cic_max_decim))

RunFreq ==
    \E chan \in Chans :
        EngineStep("freq", chan,
            ResolveFreq(Cleared(Blk, "freq", chan), chan, cmd_time[chan]))

RunSampRateIn ==
    \E chan \in Chans :
        EngineStep("samp_rate_in", chan,
            ResolveSampRateIn(Cleared(Blk, "samp_rate_in", chan), chan,
                              valid_decims))

RunSampRateOut ==
    \E chan \in Chans :
        EngineStep("samp_rate_out", chan,
            ResolveSampRateOut(Cleared(Blk, "samp_rate_out", chan), chan,
                               valid_decims))

RunScalingIn ==
    \E chan \in Chans :
        EngineStep("scaling_in", chan,
            ResolveScalingIn(Cleared(Blk, "scaling_in", chan), chan))

RunScalingOut2 ==
    \E chan \in Chans :
        EngineStep("scaling_out_2", chan,
            ResolveScalingOut(Cleared(Blk, "scaling_out_2", chan), chan))

RunTypeIn ==
    \E chan \in Chans :
        EngineStep("type_in", chan,
            ResolveTypeIn(Cleared(Blk, "type_in", chan), chan))

RunTypeOut ==
    \E chan \in Chans :
        EngineStep("type_out", chan,
            ResolveTypeOut(Cleared(Blk, "type_out", chan), chan))

\* set_property returns: no resolver is triggered any more
Return ==
    /\ status = "resolving"
    /\ Fixpoint(Blk)
    /\ api = NoApi
    /\ status' = "idle"
    /\ call' = NoCallRec
    /\ UNCHANGED <<cfgvars, api, coerce_call, decim_call, propvars, hwvars,
                   cmd_time, ncalls, action_rx, posted>>

(***************************************************************************)
(* External sets of a property: set_property<T>(name, value, chan), or the *)
(* same property set through an edge by a neighbouring block.              *)
(***************************************************************************)
RateInputs == {DFromInt(1000000000), DFromInt(1024000000),
               DFromInt(128000000)}

DecimInputs == {0, 3, 7}

ScalingInputs == {DFromInt(2)}

FreqInputs == {DFromInt(1000000)}

TypeInputs == {"fc32"}

PropInputs(prop) ==
    CASE prop \in {"samp_rate_in", "samp_rate_out"} -> RateInputs
      [] prop = "decim"                             -> DecimInputs
      [] prop \in {"scaling_in", "scaling_out"}     -> ScalingInputs
      [] prop = "freq"                              -> FreqInputs
      [] prop \in {"type_in", "type_out"}           -> TypeInputs

PropNames ==
    {"samp_rate_in", "samp_rate_out", "scaling_in", "scaling_out", "decim",
     "freq", "type_in", "type_out"}

NoAction == [edge |-> "none", chan |-> 0, stream_cmd |-> <<>>,
             threw |-> FALSE]

\* property.set(value) and the start of the resolution
SetPropertyCore(prop, chan, value) ==
    /\ status \in {"idle", "error"}
    /\ action_rx = NoAction
    /\ ncalls < MaxCalls
    /\ \E B1 \in {[Blk EXCEPT ![prop][chan] = value,
                               !.dirty = @ \cup {<<prop, chan>>}]} :
           /\ Install(B1)
           /\ call' = [prop |-> prop, chan |-> chan, execs |-> 0,
                       clean |-> (dirty = {}), bound_hit |-> FALSE,
                       pre |-> B1]
    /\ status' = "resolving"
    /\ ncalls' = ncalls + 1
    /\ UNCHANGED <<cfgvars, coerce_call, decim_call, action_rx, posted>>

SetProperty(prop, chan, value) ==
    /\ SetPropertyCore(prop, chan, value)
    /\ api' = NoApi
    /\ UNCHANGED cmd_time

Set ==
    \E prop \in PropNames, chan \in Chans :
        \E value \in PropInputs(prop) : SetProperty(prop, chan, value)

(***************************************************************************)
(* Stream commands: issue_stream_cmd and the action handler registered by  *)
(* register_issue_stream_cmd.  action_rx is the action the handler was     *)
(* called with (threw: the handler left with an exception), posted what    *)
(* that call handed to post_action; the graph delivers what was posted     *)
(* before the block is called again.                                       *)
(***************************************************************************)
INPUT_EDGE == "INPUT_EDGE"

OUTPUT_EDGE == "OUTPUT_EDGE"

STREAM_MODE_START_CONTINUOUS == "a"

STREAM_MODE_STOP_CONTINUOUS == "o"

STREAM_MODE_NUM_SAMPS_AND_DONE == "d"

STREAM_MODE_NUM_SAMPS_AND_MORE == "m"

StreamModes ==
    {STREAM_MODE_START_CONTINUOUS, STREAM_MODE_STOP_CONTINUOUS,
     STREAM_MODE_NUM_SAMPS_AND_DONE, STREAM_MODE_NUM_SAMPS_AND_MORE}

NumSampsInputs == {1000}

StreamCmds ==
    [stream_mode : StreamModes, num_samps : NumSampsInputs,
     stream_now : {FALSE}, time_spec : {5}]

\* res_source_info::invert_edge
invert_edge(edge) == IF edge = INPUT_EDGE THEN OUTPUT_EDGE ELSE INPUT_EDGE

\* the handler stopped by the processor's divide error
Trap == -2

\* num_samps /= d: an integer division by zero is undefined; the processor
\* traps or the quotient is 0
DivOutcomes(num_samps, d) ==
    IF d = 0 THEN {Trap, 0} ELSE {num_samps \div d}

\* a handler that rescales num_samps whatever the stream mode
NewNumSamps_every_mode(src_edge, chan, stream_cmd) ==
    IF src_edge = OUTPUT_EDGE
    THEN {stream_cmd.num_samps * decim[chan]}
    ELSE DivOutcomes(stream_cmd.num_samps, decim[chan])

\* the values new_action->stream_cmd.num_samps can have at post_action
NewNumSamps(src_edge, chan, stream_cmd) ==
    IF stream_cmd.stream_mode \in {STREAM_MODE_NUM_SAMPS_AND_DONE,
                                   STREAM_MODE_NUM_SAMPS_AND_MORE}
    THEN IF src_edge = OUTPUT_EDGE
         THEN {stream_cmd.num_samps * decim[chan]}
         ELSE DivOutcomes(stream_cmd.num_samps, decim[chan])
    ELSE {stream_cmd.num_samps}

issue_stream_cmd_action_handler(src_edge, chan, stream_cmd) ==
    /\ status \in {"idle", "error"}
    /\ action_rx = NoAction
    /\ action_rx' = [edge |-> src_edge, chan |-> chan,
                     stream_cmd |-> stream_cmd, threw |-> FALSE]
    /\ \E n \in NewNumSamps(src_edge, chan, stream_cmd) :
           IF n = Trap
           THEN /\ status' = "crashed"
                /\ posted' = <<>>
           ELSE /\ status' = status
                /\ posted' = <<[edge |-> invert_edge(src_edge),
                                chan |-> chan,
                                stream_cmd |->
                                    [stream_cmd EXCEPT !.num_samps = n]]>>
    /\ UNCHANGED <<cfgvars, api, coerce_call, decim_call, propvars, hwvars,
                   cmd_time, call, ncalls>>

\* an action_info that is not a stream_cmd_action_info: it carries no
\* stream command
OtherAction ==
    [stream_mode |-> "none", num_samps |-> 0, stream_now |-> FALSE,
     time_spec |-> 0]

\* a handler that takes every action for a stream command
StreamCmdCast_unchecked(action) == TRUE

\* std::dynamic_pointer_cast<stream_cmd_action_info>(action) is not null
StreamCmdCast(action) == action \in StreamCmds

\* throw uhd::runtime_error("Received stream_cmd of invalid action type!")
ThrowInvalidAction(src_edge, chan, action) ==
    /\ status \in {"idle", "error"}
    /\ action_rx = NoAction
    /\ action_rx' = [edge |-> src_edge, chan |-> chan,
                     stream_cmd |-> action, threw |-> TRUE]
    /\ posted' = <<>>
    /\ UNCHANGED <<cfgvars, api, coerce_call, decim_call, propvars, hwvars,
                   cmd_time, status, call, ncalls>>

\* the handler that register_issue_stream_cmd registers for
\* ACTION_KEY_STREAM_CMD
ActionHandler(src_edge, chan, action) ==
    IF StreamCmdCast(action)
    THEN issue_stream_cmd_action_handler(src_edge, chan, action)
    ELSE ThrowInvalidAction(src_edge, chan, action)

\* a stream command action arrives from a neighbouring block
ReceiveStreamCmd ==
    \E src_edge \in {INPUT_EDGE, OUTPUT_EDGE}, chan \in Chans,
       stream_cmd \in StreamCmds :
        ActionHandler(src_edge, chan, stream_cmd)

\* an action of another type arrives under the stream command key
ReceiveOtherAction ==
    \E src_edge \in {INPUT_EDGE, OUTPUT_EDGE}, chan \in Chans :
        ActionHandler(src_edge, chan, OtherAction)

\* the API call issue_stream_cmd(stream_cmd, port)
issue_stream_cmd ==
    \E port \in Chans, stream_cmd \in StreamCmds :
        issue_stream_cmd_action_handler(OUTPUT_EDGE, port, stream_cmd)

\* the graph takes the posted action to the neighbouring block, or the
\* handler's exception to whoever sent the action
DeliverAction ==
    /\ status \in {"idle", "error"}
    /\ action_rx # NoAction
    /\ action_rx' = NoAction
    /\ posted' = <<>>
    /\ UNCHANGED <<cfgvars, api, coerce_call, decim_call, propvars, hwvars,
                   cmd_time, status, call, ncalls>>

(***************************************************************************)
(* Initial state: the block after construction.                            *)
(***************************************************************************)
NoCall == [req |-> DZero, res |-> Throw, called |-> FALSE]

NoDecimCall == [d |-> 0, chan |-> 0, called |-> FALSE, threw |-> FALSE]

InitBlock(nhb, cicmax) ==
    /\ num_halfbands = nhb
    /\ cic_max_decim = cicmax
    /\ valid_decims = ConstructValidDecims(nhb, cicmax)
    /\ coerce_call = NoCall
    /\ decim_call = NoDecimCall
    /\ samp_rate_in = [chan \in Chans |-> DEFAULT_RATE]
    /\ samp_rate_out = [chan \in Chans |-> DEFAULT_RATE]
    /\ scaling_in = [chan \in Chans |-> DEFAULT_SCALING]
    /\ scaling_out = [chan \in Chans |-> DEFAULT_SCALING]
    /\ decim = [chan \in Chans |-> DEFAULT_DECIM]
    /\ freq = [chan \in Chans |-> DEFAULT_FREQ]
    /\ type_in = [chan \in Chans |-> IO_TYPE_SC16]
    /\ type_out = [chan \in Chans |-> IO_TYPE_SC16]
    /\ dirty = {}
    /\ residual_scaling = [chan \in Chans |-> DEFAULT_SCALING]
    /\ regs = [addr \in RegAddrs |-> NoPoke]
    /\ freq_poke_time = [chan \in Chans |-> NoTime]
    /\ cmd_time = [chan \in Chans |-> NoTime]
    /\ status = "idle"
    /\ call = NoCallRec
    /\ ncalls = 0
    /\ action_rx = NoAction
    /\ posted = <<>>
    /\ api = NoApi

(***************************************************************************)
(* Spec: the block in use.  The device is one of Devices.                  *)
(***************************************************************************)
\* <<number of halfbands, maximum CIC ratio>> of the devices modelled
Devices == {<<0, 1>>, <<2, 8>>}

Init == \E dev \in Devices : InitBlock(dev[1], dev[2])

Next ==
    \/ Set
    \/ RunScalingOut1
    \/ RunDecim
    \/ RunFreq
    \/ RunSampRateIn
    \/ RunSampRateOut
    \/ RunScalingIn
    \/ RunScalingOut2
    \/ RunTypeIn
    \/ RunTypeOut
    \/ Return
    \/ ReceiveStreamCmd
    \/ ReceiveOtherAction
    \/ issue_stream_cmd
    \/ DeliverAction

Spec == Init /\ [][Next]_vars

(***************************************************************************)
(* The resolution of one set with the engine choosing, among the triggered *)
(* resolvers, the one registered first (lowest channel first).             *)
(***************************************************************************)
Pending(B) ==
    { p \in Chans \X (1 .. Len(ResolverOrder)) :
          Triggered(B, ResolverOrder[p[2]], p[1]) }

FirstPending(B) ==
    CHOOSE p \in Pending(B) :
        \A q \in Pending(B) :
            p[2] < q[2] \/ (p[2] = q[2] /\ p[1] <= q[1])

RECURSIVE ResolveInOrder(_, _, _, _)
ResolveInOrder(B, cfg, times, fuel) ==
    IF B.err \/ fuel = 0 \/ Pending(B) = {} THEN B
    ELSE ResolveInOrder(
             RunResolver(ResolverOrder[FirstPending(B)[2]], B,
                         FirstPending(B)[1], cfg, times),
             cfg, times, fuel - 1)

\* what the set in progress leaves when the engine follows registration
\* order
InOrderResult ==
    ResolveInOrder(call.pre, <<valid_decims, num_halfbands, cic_max_decim>>,
                   cmd_time, ExecBound)

\* the set in progress has reached its fixpoint: set_property is about to
\* return without an error
AtFixpoint == status = "resolving" /\ Fixpoint(Blk)

(***************************************************************************)
(* get_output_rates: input_rate / it->start() for the members of           *)
(* _valid_decims taken from the last to the first.                         *)
(***************************************************************************)
get_output_rates(chan) ==
    [i \in 1 .. Len(valid_decims) |->
        DDiv(samp_rate_in[chan],
             DFromInt(valid_decims[Len(valid_decims) + 1 - i]))]

\* C12: in every state get_output_rates(chan) is sorted ascending, holds
\* exactly the rates input_rate / d for d in the valid set, and each of
\* them is a finite rate.
C12_OutputRatesSortedFinite ==
    \A chan \in Chans :
        \E R \in {get_output_rates(chan)} :
            /\ \A i \in 1 .. (Len(R) - 1) : DLe(R[i], R[i + 1])
            /\ SeqRange(R) = { DDiv(samp_rate_in[chan], DFromInt(d)) :
                                  d \in SeqRange(valid_decims) }
            /\ \A i \in 1 .. Len(R) : R[i].k = "fin"

(***************************************************************************)
(* SpecCoerce: the decimation policy on its own.  The device reports any   *)
(* number of halfbands and any CIC maximum within the bounds; coerce_decim *)
(* is then called with requested decimations k / 4.                        *)
(***************************************************************************)
Requests == { DScale(DFromInt(k), -2) : k \in 0 .. MaxRequest }

InitCoerce ==
    \E nhb \in 0 .. MaxHalfbands, cicmax \in 1 .. MaxCic :
        InitBlock(nhb, cicmax)

CallCoerce(r) ==
    /\ coerce_call' = [req |-> r, res |-> coerce_decim(valid_decims, r),
                       called |-> TRUE]
    /\ UNCHANGED <<cfgvars, api, decim_call, propvars, hwvars, cmd_time,
                   status, call, ncalls, action_rx, posted>>

NextCoerce == \E r \in Requests : CallCoerce(r)

SpecCoerce == InitCoerce /\ [][NextCoerce]_vars

(***************************************************************************)
(* SpecSetDecim: set_decim on its own.  The device is one of DecimDevices  *)
(* and set_decim is called once, for one channel, with a decimation of     *)
(* 0 .. MaxDecimArg.                                                       *)
(***************************************************************************)
MaxDecimArg == 256

\* <<number of halfbands, maximum CIC ratio>>
DecimDevices == {<<0, 255>>, <<1, 1>>, <<2, 8>>, <<3, 16>>}

InitSetDecim == \E dev \in DecimDevices : InitBlock(dev[1], dev[2])

CallSetDecim(d, chan) ==
    /\ ~decim_call.called
    /\ \E B \in {set_decim(Blk, d, chan, num_halfbands, cic_max_decim)} :
           /\ Install(B)
           /\ decim_call' = [d |-> d, chan |-> chan, called |-> TRUE,
                             threw |-> B.err]
    /\ UNCHANGED <<cfgvars, api, coerce_call, cmd_time, status, call,
                   ncalls, action_rx, posted>>

NextSetDecim ==
    \E d \in 0 .. MaxDecimArg, chan \in Chans : CallSetDecim(d, chan)

SpecSetDecim == InitSetDecim /\ [][NextSetDecim]_vars

(***************************************************************************)
(* Claims about set_decim (checked under SpecSetDecim).                    *)
(***************************************************************************)
\* the number of times d is divisible by two, capped at cap
RECURSIVE TwoFactors(_, _)
TwoFactors(d, cap) ==
    IF cap = 0 \/ d = 0 \/ d % 2 # 0 THEN 0
    ELSE 1 + TwoFactors(d \div 2, cap - 1)

\* C11: for every decimation d that set_decim accepts, with h the number
\* of times d is divisible by two capped at the number of halfbands and
\* c = d / 2^h, the decimation register holds h in the bits above bit 7 and
\* c in bits [7:0], the N register holds d and the M register holds 1.
C11_DecimWordLayout ==
    (decim_call.called /\ ~decim_call.threw) =>
        \E h \in {TwoFactors(decim_call.d, num_halfbands)} :
            /\ regs[get_addr(SR_DECIM_ADDR, decim_call.chan)] \div 256 = h
            /\ regs[get_addr(SR_DECIM_ADDR, decim_call.chan)] % 256
                   = decim_call.d \div Pow2(h)
            /\ decim_call.d = Pow2(h) * (decim_call.d \div Pow2(h))
            /\ regs[get_addr(SR_N_ADDR, decim_call.chan)] = decim_call.d
            /\ regs[get_addr(SR_M_ADDR, decim_call.chan)] = 1

\* three halfbands, d = 40: h = 3, c = 5, word 0x0305
C11_Witness ==
    /\ decim_call.called
    /\ ~decim_call.threw
    /\ num_halfbands = 3
    /\ decim_call.d = 40
    /\ regs[get_addr(SR_DECIM_ADDR, decim_call.chan)] = 773

\* C20: for every CIC ratio c from 1 to the device's maximum (at most
\* 255) that set_decim programs, the scale factor written to the scaling
\* register, round(2^15 / total) with total = 2 c^4 / 2^ceil(log2(c^4)),
\* lies within -32768 .. 32767.
C20_ScaleFactorInRange ==
    (decim_call.called /\ ~decim_call.threw) =>
        /\ regs[get_addr(SR_SCALE_IQ_ADDR, decim_call.chan)] >= -32768
        /\ regs[get_addr(SR_SCALE_IQ_ADDR, decim_call.chan)] <= 32767

\* the largest CIC ratio, 255, with no halfband in use
C20_Witness ==
    /\ decim_call.called
    /\ ~decim_call.threw
    /\ num_halfbands = 0
    /\ decim_call.d = 255
    /\ regs[get_addr(SR_DECIM_ADDR, decim_call.chan)] = 255
    /\ regs[get_addr(SR_SCALE_IQ_ADDR, decim_call.chan)] # NoPoke

(***************************************************************************)
(* Claims about the decimation policy (checked under SpecCoerce).          *)
(***************************************************************************)
ValidSet == SeqRange(valid_decims)

IsMember(r) == \E d \in ValidSet : DFromInt(d) = r

\* C1: for every requested decimation r > 0, coerce_decim(r) is a member of
\* the valid-decimation set built by the constructor and no member of the
\* set is nearer to r.
C1_CoerceNearestMember ==
    (coerce_call.called /\ DLt(DZero, coerce_call.req)) =>
        /\ coerce_call.res \in ValidSet
        /\ \A d \in ValidSet :
               DLe(DAbsDiff(coerce_call.req, DFromInt(coerce_call.res)),
                   DAbsDiff(coerce_call.req, DFromInt(d)))

\* C1 witness: a fractional request lying between two members was coerced
\* up to the nearer, larger member.
C1_Witness ==
    /\ coerce_call.called
    /\ ~IsMember(coerce_call.req)
    /\ coerce_call.res # Throw
    /\ coerce_call.res \in ValidSet
    /\ DLt(coerce_call.req, DFromInt(coerce_call.res))
    /\ \E d \in ValidSet : DLt(DFromInt(d), coerce_call.req)

\* C2 (as claimed): coerce_decim applied to any member of the
\* valid-decimation set succeeds and returns that member.
C2_MemberReturnedUnchanged ==
    (coerce_call.called /\ IsMember(coerce_call.req)) =>
        /\ coerce_call.res # Throw
        /\ DFromInt(coerce_call.res) = coerce_call.req

\* C3 (as claimed): the valid-decimation set is exactly
\* { 2^h * c : 0 <= h <= N, 1 <= c <= M }.
C3_SetIsEveryCombination ==
    ValidSet = { Pow2(h) * c : h \in 0 .. num_halfbands,
                               c \in 1 .. cic_max_decim }

\* C4 (as claimed): the valid-decimation set is strictly increasing, holds
\* 1 and only integers >= 1.
C4_SetPositiveSorted ==
    /\ \A i \in 1 .. (Len(valid_decims) - 1) :
           valid_decims[i] < valid_decims[i + 1]
    /\ 1 \in ValidSet
    /\ \A d \in ValidSet : d >= 1

(***************************************************************************)
(* Claims about property resolution (Spec).                                *)
(***************************************************************************)

\* C5: after an external set of a channel's decim property that completes
\* without error, the channel's samp_rate_out equals its samp_rate_in divided
\* by the resolved decim, and samp_rate_in is what it was before the set.
C5_DecimSetKeepsInputRate ==
    (AtFixpoint /\ call.prop = "decim") =>
        /\ samp_rate_out[call.chan] =
               DDiv(samp_rate_in[call.chan], DFromInt(decim[call.chan]))
        /\ samp_rate_in[call.chan] = call.pre.samp_rate_in[call.chan]

\* C6: after every resolution that completes without error, each channel has
\* scaling_out = scaling_in * _residual_scaling[chan].
C6_ScalingOutIsResidualTimesIn ==
    AtFixpoint =>
        \A chan \in Chans :
            scaling_out[chan] =
                DMul(scaling_in[chan], residual_scaling[chan])

\* a set of scaling_in has completed on a channel whose decimation left a
\* residual other than 1
C6_Witness ==
    /\ AtFixpoint
    /\ call.prop = "scaling_in"
    /\ residual_scaling[call.chan] # DFromInt(1)
    /\ scaling_in[call.chan] = DFromInt(2)
    /\ scaling_out[call.chan] # scaling_in[call.chan]

\* C7 as stated: a set made when no property is dirty always runs to a
\* fixpoint: it is never aborted and never hits the execution bound.  (A
\* resolution that is not at its fixpoint has a triggered resolver, and each
\* execution counts towards the bound, so a resolution that is neither
\* aborted nor over the bound reaches the fixpoint.)
C7_SetReachesFixpoint ==
    call.clean => (status # "error" /\ ~call.bound_hit)

\* C7 amended: a set made when no property is dirty ends at a fixpoint or is
\* aborted by an exception thrown in a resolver; it never hits the
\* execution bound.
C7_SetEndsWithinBound ==
    call.clean => (~call.bound_hit /\ call.execs < ExecBound)

\* a set of samp_rate_out, made when nothing was dirty, has reached its
\* fixpoint after the rate resolvers and the decim resolver triggered one
\* another
C7_Witness ==
    /\ AtFixpoint
    /\ call.clean
    /\ call.prop = "samp_rate_out"
    /\ decim[call.chan] # call.pre.decim[call.chan]
    /\ samp_rate_in[call.chan] # call.pre.samp_rate_in[call.chan]
    /\ call.execs >= 5

\* the block is in the state R, as far as decim, the rates, the scalings
\* and freq go
SameValues(R) ==
    /\ ~R.err
    /\ R.decim = decim
    /\ R.samp_rate_in = samp_rate_in
    /\ R.samp_rate_out = samp_rate_out
    /\ R.scaling_in = scaling_in
    /\ R.scaling_out = scaling_out
    /\ R.freq = freq

FixedCount(stream_cmd) ==
    stream_cmd.stream_mode \in {STREAM_MODE_NUM_SAMPS_AND_DONE,
                                STREAM_MODE_NUM_SAMPS_AND_MORE}

\* q is num_samps divided by d
IsQuotient(q, num_samps, d) ==
    d > 0 /\ q * d <= num_samps /\ num_samps < (q + 1) * d

\* C9: a fixed-count stream command that arrived on an edge of a channel is
\* forwarded exactly once, to the opposite edge of the same channel, with
\* num_samps multiplied by the channel's decim when it came from the output
\* edge and divided by it when it came from the input edge.
C9_FixedCountRescaled ==
    (action_rx # NoAction /\ FixedCount(action_rx.stream_cmd)) =>
        /\ Len(posted) = 1
        /\ posted[1].edge = invert_edge(action_rx.edge)
        /\ posted[1].chan = action_rx.chan
        /\ posted[1].stream_cmd.stream_mode = action_rx.stream_cmd.stream_mode
        /\ IF action_rx.edge = OUTPUT_EDGE
           THEN posted[1].stream_cmd.num_samps =
                    action_rx.stream_cmd.num_samps * decim[action_rx.chan]
           ELSE IsQuotient(posted[1].stream_cmd.num_samps,
                           action_rx.stream_cmd.num_samps,
                           decim[action_rx.chan])

Continuous(stream_cmd) ==
    stream_cmd.stream_mode \in {STREAM_MODE_START_CONTINUOUS,
                                STREAM_MODE_STOP_CONTINUOUS}

\* the handler has been called with an action
HandlerCalled == action_rx = NoAction /\ action_rx' # NoAction

\* C10: a continuous-start or stop stream command is forwarded to the
\* opposite edge of the same channel with every field unchanged, whatever
\* decim is and whichever edge it came from; and handling an action
\* changes no property and no register.
C10_ContinuousForwardedUnchanged ==
    [][HandlerCalled =>
          /\ UNCHANGED <<propvars, hwvars>>
          /\ Continuous(action_rx'.stream_cmd) =>
                 posted' = <<[edge |-> invert_edge(action_rx'.edge),
                              chan |-> action_rx'.chan,
                              stream_cmd |-> action_rx'.stream_cmd]>>]_vars

\* a continuous-mode command has been forwarded from the input edge of a
\* channel that decimates
C10_Witness ==
    /\ action_rx # NoAction
    /\ Continuous(action_rx.stream_cmd)
    /\ action_rx.edge = INPUT_EDGE
    /\ decim[action_rx.chan] > 1
    /\ Len(posted) = 1

\* C16: when the handler registered for stream command actions receives an
\* action whose payload is not a stream command it raises an error, posts
\* no action and changes no property (and no register).
C16_InvalidActionRejected ==
    [][(HandlerCalled /\ action_rx'.stream_cmd \notin StreamCmds) =>
          /\ action_rx'.threw
          /\ posted' = <<>>
          /\ UNCHANGED <<propvars, hwvars>>]_vars

\* an action that is no stream command has been rejected on a channel that
\* decimates
C16_Witness ==
    /\ action_rx # NoAction
    /\ action_rx.stream_cmd = OtherAction
    /\ action_rx.threw
    /\ posted = <<>>
    /\ decim[action_rx.chan] > 1

(***************************************************************************)
(* Claims about sets of the rates (Spec).  call.pre is the block right     *)
(* after the set stored the new value and before any resolver ran: it      *)
(* holds the requested rate and the other values as they were.             *)
(***************************************************************************)
\* the ratio input rate / output rate the set in progress asks for
RequestedRatio ==
    DDiv(call.pre.samp_rate_in[call.chan], call.pre.samp_rate_out[call.chan])

\* C13: when a channel's output rate is set to a value for which input
\* rate / requested rate is not a member of the valid set, the decimation
\* after resolution is the member nearest to that real ratio.
C13_OutputRateSetNearestDecim ==
    (AtFixpoint /\ call.prop = "samp_rate_out"
        /\ ~IsMember(RequestedRatio)) =>
        decim[call.chan] = clip(valid_decims, RequestedRatio)

\* C14: when a channel's output rate is set to a value that is not input
\* rate / d for any valid decimation d, the output rate after resolution is
\* not the requested value.
C14_UnachievableRateNotKept ==
    (AtFixpoint /\ call.prop = "samp_rate_out"
        /\ \A d \in ValidSet :
               DDiv(call.pre.samp_rate_in[call.chan], DFromInt(d))
                   # call.pre.samp_rate_out[call.chan]) =>
        samp_rate_out[call.chan] # call.pre.samp_rate_out[call.chan]

\* C17: after a set of the output rate whose ratio had to be coerced, the
\* input rate is output rate * decimation and the output rate is the value
\* set, whether or not the coerced decimation is the one held before.
C17_CoercedOutputSetMovesInput ==
    (AtFixpoint /\ call.prop = "samp_rate_out"
        /\ ~IsMember(RequestedRatio)) =>
        /\ samp_rate_in[call.chan] =
               DMul(samp_rate_out[call.chan], DFromInt(decim[call.chan]))
        /\ samp_rate_out[call.chan] = call.pre.samp_rate_out[call.chan]

\* C18: after a set of the input rate to r: when r / output rate is a
\* member of the valid set the output rate is unchanged and the decimation
\* is that member; otherwise the decimation is the coerced value, the
\* output rate is r / decimation and the input rate is still r.
C18_InputRateSet ==
    (AtFixpoint /\ call.prop = "samp_rate_in") =>
        IF IsMember(RequestedRatio)
        THEN /\ samp_rate_out[call.chan] = call.pre.samp_rate_out[call.chan]
             /\ DFromInt(decim[call.chan]) = RequestedRatio
        ELSE /\ decim[call.chan] = coerce_decim(valid_decims, RequestedRatio)
             /\ samp_rate_out[call.chan] =
                    DDiv(call.pre.samp_rate_in[call.chan],
                         DFromInt(decim[call.chan]))
             /\ samp_rate_in[call.chan] = call.pre.samp_rate_in[call.chan]


(***************************************************************************)
(* Claims about the independence of the channels (Spec).                   *)
(***************************************************************************)
\* everything the block holds for channel c: its property values and dirty
\* flags, its residual scaling and its registers
ChanView(c) ==
    <<samp_rate_in[c], samp_rate_out[c], scaling_in[c], scaling_out[c],
      decim[c], freq[c], type_in[c], type_out[c],
      { prop \in PropNames : <<prop, c>> \in dirty },
      residual_scaling[c],
      [base \in RegBases |-> regs[get_addr(base, c)]]>>

\* the step belongs to an operation on a channel other than c: the set of
\* a property of another channel is made or is being resolved, or the
\* action handler is called for another channel
OnOtherChannel(c) ==
    \/ status = "resolving" /\ call.chan # c
    \/ status # "resolving" /\ status' = "resolving" /\ call'.chan # c
    \/ HandlerCalled /\ action_rx'.chan # c

\* C15: sets and stream commands on a channel A leave every property
\* value, dirty flag, residual scaling and register of every other channel
\* B unchanged; they write only registers at base + 2048 * A.
C15_ChannelsIndependent ==
    [][\A c \in Chans :
          OnOtherChannel(c) => ChanView(c)' = ChanView(c)]_vars


(***************************************************************************)
(* Claims about the tuning word (Spec).                                    *)
(***************************************************************************)
\* the step is an execution, without error, of resolver r of channel c:
\* the engine clears the dirty flag of the resolver's input
Ran(r, c) ==
    /\ status = "resolving"
    /\ status' = "resolving"
    /\ call'.execs = call.execs + 1
    /\ <<ResolverInput(r), c>> \in dirty
    /\ <<ResolverInput(r), c>> \notin dirty'

\* the tuning word register of channel c holds the word for the channel's
\* frequency and input rate
TuningWordCurrent(c) ==
    regs[get_addr(SR_FREQ_ADDR, c)] = FreqWord(freq[c], samp_rate_in[c])

C21_CoercedIsAccepted ==
    (coerce_call.called /\ DLt(DZero, coerce_call.req)) =>
        /\ coerce_call.res # Throw
        /\ ~set_decim(Blk, coerce_call.res, 0, num_halfbands,
                      cic_max_decim).err

\* C22: after a set of the input rate, the output rate or the decimation
\* that completes without error, the channel's output rate is its input
\* rate divided by its decimation and the decimation is a member of the
\* valid set.
C22_RatesConsistentAfterSet ==
    (AtFixpoint /\ call.prop \in {"samp_rate_in", "samp_rate_out", "decim"})
        => /\ samp_rate_out[call.chan] =
                  DDiv(samp_rate_in[call.chan], DFromInt(decim[call.chan]))
           /\ decim[call.chan] \in ValidSet

\* C23: while the only sets made are sets of the rates (to positive
\* values), every channel's decimation is at least 1 whenever no set is in
\* progress, also when the last set has failed.
C23_DecimAtLeastOne ==
    (status # "resolving" /\ ncalls <= 1 /\ call.prop # "decim") =>
        \A chan \in Chans : decim[chan] >= 1

(***************************************************************************)
(* Claims about the registers and the decimation (Spec).                   *)
(***************************************************************************)
\* the decimation word and the rate numerator last written for channel c
\* stand for the channel's decimation, and the residual scaling is the one
\* computed for the CIC ratio in the decimation word
DecimProgrammed(c) ==
    \E word \in {regs[get_addr(SR_DECIM_ADDR, c)]} :
        /\ word # NoPoke
        /\ Pow2(word \div 256) * (word % 256) = decim[c]
        /\ regs[get_addr(SR_N_ADDR, c)] = decim[c]
        /\ residual_scaling[c] = Residual(TotalGain(word % 256))

\* C24: after a set that completes without error and during which a
\* channel's decimation changed value (or that was a set of the channel's
\* decimation), the decimation word and the rate numerator last written
\* for the channel correspond to its decimation, and its residual scaling
\* is the residual of that decimation's CIC ratio.
C24_RegistersFollowDecim ==
    AtFixpoint =>
        \A c \in Chans :
            (decim[c] # call.pre.decim[c]
                \/ (call.prop = "decim" /\ call.chan = c)) =>
                DecimProgrammed(c)

\* a set of the output rate has changed the decimation to a value with a
\* halfband in use, and the registers hold it
C24_Witness ==
    /\ AtFixpoint
    /\ call.prop = "samp_rate_out"
    /\ decim[call.chan] # call.pre.decim[call.chan]
    /\ regs[get_addr(SR_DECIM_ADDR, call.chan)] >= 256
    /\ DecimProgrammed(call.chan)

(***************************************************************************)
(* Claims about a rejected decimation (checked under SpecSetDecim).        *)
(***************************************************************************)
\* C25: when set_decim rejects a decimation it has written no register
\* (decimation word, rate numerator and denominator, scale correction), has
\* left the residual scaling of every channel as it was, and leaves with
\* the error for its caller.
C25_RejectedDecimWritesNothing ==
    (decim_call.called
        /\ set_decim(Blk, decim_call.d, decim_call.chan, num_halfbands,
                     cic_max_decim).err) =>
        /\ decim_call.threw
        /\ \A addr \in RegAddrs : regs[addr] = NoPoke
        /\ residual_scaling = [chan \in Chans |-> DEFAULT_SCALING]

\* with two halfbands and a CIC maximum of 8, d = 36 leaves a CIC ratio of
\* 9 and is rejected
C25_Witness ==
    /\ decim_call.called
    /\ decim_call.threw
    /\ num_halfbands = 2
    /\ cic_max_decim = 8
    /\ decim_call.d = 36
    /\ \A addr \in RegAddrs : regs[addr] = NoPoke

(***************************************************************************)
(* The API calls set_output_rate and set_freq.  api records the call: its  *)
(* channel, the command time it saved and the time it was given, the       *)
(* decimation it asked for, and, once it has returned, the value returned. *)
(***************************************************************************)
\* rates asked of set_output_rate
OutputRateInputs == {DFromInt(1000000000), DFromInt(250000000)}

\* boost::optional<uhd::time_spec_t>: <<>> is boost::none
SetFreqTimes == {<<>>, <<7>>}

CommandTimeInputs == {3}

\* set_command_time(time, chan), called by the application
set_command_time(time, chan) ==
    /\ status \in {"idle", "error"}
    /\ action_rx = NoAction
    /\ cmd_time[chan] # time
    /\ cmd_time' = [cmd_time EXCEPT ![chan] = time]
    /\ api' = NoApi
    /\ UNCHANGED <<cfgvars, coerce_call, decim_call, propvars, hwvars,
                   status, call, ncalls, action_rx, posted>>

\* coerce_decim threw before set_property was called
ApiThrow(op, chan) ==
    /\ status \in {"idle", "error"}
    /\ action_rx = NoAction
    /\ ncalls < MaxCalls
    /\ status' = "error"
    /\ ncalls' = ncalls + 1
    /\ api' = [NoApi EXCEPT !.op = op, !.chan = chan,
                            !.prev_cmd_time = cmd_time[chan]]
    /\ UNCHANGED <<cfgvars, coerce_call, decim_call, propvars, hwvars,
                   cmd_time, call, action_rx, posted>>

\* set_output_rate up to the return of set_property
set_output_rate(rate, chan) ==
    /\ status \in {"idle", "error"}
    /\ action_rx = NoAction
    /\ ncalls < MaxCalls
    /\ \E coerced_decim \in
           {coerce_decim(valid_decims, DDiv(samp_rate_in[chan], rate))} :
           IF coerced_decim = Throw
           THEN ApiThrow("set_output_rate", chan)
           ELSE /\ SetPropertyCore("decim", chan, coerced_decim)
                /\ api' = [NoApi EXCEPT !.op = "set_output_rate",
                                        !.chan = chan,
                                        !.prev_cmd_time = cmd_time[chan],
                                        !.coerced_decim = coerced_decim]
                /\ UNCHANGED cmd_time

\* set_freq up to the return of set_property
set_freq(f, chan, time) ==
    /\ SetPropertyCore("freq", chan, f)
    /\ api' = [NoApi EXCEPT !.op = "set_freq", !.chan = chan,
                            !.time = time,
                            !.prev_cmd_time = cmd_time[chan]]
    /\ cmd_time' = IF time # <<>>
                   THEN [cmd_time EXCEPT ![chan] = time[1]]
                   ELSE cmd_time

\* what the API call in progress returns
ApiResult ==
    IF api.op = "set_freq" THEN freq[api.chan]
    ELSE DFromInt(decim[api.chan])

\* set_property has returned: the rest of set_freq or set_output_rate
ApiReturn ==
    /\ status = "resolving"
    /\ Fixpoint(Blk)
    /\ api # NoApi
    /\ status' = "idle"
    /\ call' = NoCallRec
    /\ cmd_time' = IF api.op = "set_freq"
                   THEN [cmd_time EXCEPT ![api.chan] = api.prev_cmd_time]
                   ELSE cmd_time
    /\ api' = [api EXCEPT !.done = TRUE, !.ret = ApiResult]
    /\ UNCHANGED <<cfgvars, coerce_call, decim_call, propvars, hwvars,
                   ncalls, action_rx, posted>>

CallSetOutputRate ==
    \E rate \in OutputRateInputs, chan \in Chans :
        set_output_rate(rate, chan)

CallSetFreq ==
    \E f \in FreqInputs, chan \in Chans, time \in SetFreqTimes :
        set_freq(f, chan, time)

CallSetCommandTime ==
    \E time \in CommandTimeInputs, chan \in Chans :
        set_command_time(time, chan)

\* the sets of a property made between API calls: the input rate or a
\* type, by a neighbouring block, or the decimation
SetBetween ==
    \E prop \in {"samp_rate_in", "decim", "type_in", "type_out"} :
        \E value \in PropInputs(prop) : SetProperty(prop, 0, value)

NextApi ==
    \/ SetBetween
    \/ CallSetOutputRate
    \/ CallSetFreq
    \/ CallSetCommandTime
    \/ RunScalingOut1
    \/ RunDecim
    \/ RunFreq
    \/ RunSampRateIn
    \/ RunSampRateOut
    \/ RunScalingIn
    \/ RunScalingOut2
    \/ RunTypeIn
    \/ RunTypeOut
    \/ Return
    \/ ApiReturn

SpecApi == Init /\ [][NextApi]_vars

\* C26: when set_output_rate has returned, the decimation is the one it
\* coerced from input_rate / rate and the value returned is the channel's
\* output sample rate, which get_output_rate reports.
C26_SetOutputRateReturnsRate ==
    (api.op = "set_output_rate" /\ api.done) =>
        /\ decim[api.chan] = api.coerced_decim
        /\ api.ret = samp_rate_out[api.chan]

\* C27: on every way of leaving set_freq (it returned, or the resolution
\* ended in an error) the channel's command time is what it was before the
\* call; when it returned and a time was supplied, the tuning word was
\* written at that time, and the value returned is the frequency property.
C27_SetFreqRestoresCommandTime ==
    (api.op = "set_freq" /\ (api.done \/ status = "error")) =>
        /\ cmd_time[api.chan] = api.prev_cmd_time
        /\ api.done =>
               /\ api.time # <<>> =>
                      freq_poke_time[api.chan] = api.time[1]
               /\ api.ret = freq[api.chan]

====
